---- MODULE Spec2Model ----
(***************************************************************************)
(* A model of main.py, the Comsol license log parser: the single-pass scan *)
(* of the log (date markers carried forward to timestamp-only event       *)
(* lines), the DataFrame built from the recorded events, the grouped       *)
(* tables, and the order in which the workbook and the charts are written. *)
(*                                                                         *)
(* A log line is a sequence of whitespace-separated tokens.  A token is a  *)
(* record [t, s, n]: its type, its text parts and its numeric parts.       *)
(***************************************************************************)
EXTENDS Integers, Sequences, FiniteSets, TLC

\* The longest log file explored, in lines.
MaxLen == 4

----------------------------------------------------------------------------
(* Tokens of a log line *)

\* "HH:MM:SS": three two-digit numbers (\d{2}:\d{2}:\d{2}), any of 00..99.
TS(h, m, s) == [t |-> "ts", s |-> <<>>, n |-> <<h, m, s>>]
\* The literal "Time:".
KW == [t |-> "kw", s |-> <<"Time:">>, n |-> <<>>]
\* "Www Mmm D YYYY" (\w{3} \w{3} \d{1,2} \d{4}).
DATE(wd, mon, day, year) == [t |-> "date", s |-> <<wd, mon>>, n |-> <<day, year>>]
\* "IN:" or "OUT:".
DIR(d) == [t |-> "dir", s |-> <<d>>, n |-> <<>>]
\* A double-quoted feature name without inner quotes.
Q(f) == [t |-> "quoted", s |-> <<f>>, n |-> <<>>]
\* Any other run of non-space characters.
W(w) == [t |-> "word", s |-> <<w>>, n |-> <<>>]

D2(k) == ToString(k \div 10) \o ToString(k % 10)

\* The characters a token stands for, up to its first space.
Text(tok) ==
    CASE tok.t = "ts"     -> D2(tok.n[1]) \o ":" \o D2(tok.n[2]) \o ":" \o D2(tok.n[3])
      [] tok.t = "date"   -> tok.s[1]
      [] tok.t = "dir"    -> tok.s[1] \o ":"
      [] tok.t = "quoted" -> "\"" \o tok.s[1] \o "\""
      [] OTHER            -> tok.s[1]

----------------------------------------------------------------------------
(* The two regular expressions *)

\* Positions where  \s(IN|OUT):\s"feature"\s+user  matches in the line.
EventAt(line) ==
    {j \in 2..(Len(line) - 2) :
        /\ line[j].t = "dir"
        /\ line[j].s[1] \in {"IN", "OUT"}
        /\ line[j + 1].t = "quoted"}

Min(S) == CHOOSE x \in S : \A y \in S : x <= y
Max(S) == CHOOSE x \in S : \A y \in S : y <= x

\* parse_log_line: << >> for None, else <<groupdict>>.  The pattern is
\* anchored at the line's start and .*? takes the first position that fits.
parse_log_line(line) ==
    IF Len(line) >= 1 /\ line[1].t = "ts" /\ EventAt(line) # {}
    THEN LET j == Min(EventAt(line))
         IN  <<[timestamp |-> line[1].n,
                direction |-> line[j].s[1],
                feature   |-> line[j + 1].s[1],
                user      |-> Text(line[j + 2])]>>
    ELSE <<>>

\* Positions where  Time:\s+date_str\s+time_str  matches in the line.
MarkerAt(line) ==
    {i \in 1..(Len(line) - 2) :
        /\ line[i].t = "kw"
        /\ line[i + 1].t = "date"
        /\ line[i + 2].t = "ts"}

\* DATE_LINE_RE.search: << >> for None, else <<groups>> of the leftmost match.
DATE_LINE_RE(line) ==
    IF MarkerAt(line) # {}
    THEN LET i == Min(MarkerAt(line))
         IN  <<[date_str |-> line[i + 1], time_str |-> line[i + 2].n]>>
    ELSE <<>>

----------------------------------------------------------------------------
(* Dates and times *)

Weekdays == {"Mon", "Tue", "Wed", "Thu", "Fri", "Sat", "Sun"}

MonthNames == <<"Jan", "Feb", "Mar", "Apr", "May", "Jun",
                "Jul", "Aug", "Sep", "Oct", "Nov", "Dec">>

IsLeap(y) == (y % 4 = 0 /\ y % 100 # 0) \/ y % 400 = 0

DaysInMonth(y, m) ==
    IF m = 2 THEN (IF IsLeap(y) THEN 29 ELSE 28)
    ELSE IF m \in {4, 6, 9, 11} THEN 30 ELSE 31

ValidTime(hms) == hms[1] <= 23 /\ hms[2] <= 59 /\ hms[3] <= 59

\* datetime.strptime(date_str + " " + time_str, "%a %b %d %Y %H:%M:%S"):
\* <<datetime>>, or << >> when it raises ValueError.  %a is matched but does
\* not take part in the result.
strptime(date_str, time_str) ==
    LET wd   == date_str.s[1]
        mon  == date_str.s[2]
        day  == date_str.n[1]
        year == date_str.n[2]
        ms   == {k \in 1..12 : MonthNames[k] = mon}
    IN  IF /\ wd \in Weekdays
           /\ ms # {}
           /\ year >= 1
           /\ day >= 1
           /\ day <= DaysInMonth(year, Min(ms))
           /\ ValidTime(time_str)
        THEN <<[year |-> year, month |-> Min(ms), day |-> day,
                hour |-> time_str[1], minute |-> time_str[2],
                second |-> time_str[3]]>>
        ELSE <<>>

\* datetime.date()
dt_date(dt) == [year |-> dt.year, month |-> dt.month, day |-> dt.day]

\* str(date) + ' ' + timestamp: the text "YYYY-MM-DD HH:MM:SS", as its six
\* numeric fields in the order they are written.
date_str_timestamp(date, timestamp) ==
    <<date.year, date.month, date.day>> \o timestamp

\* Faulty variant of to_datetime: the format read as '%Y-%d-%m %H:%M:%S'.
to_datetime_DayFirst(text) ==
    IF /\ text[3] \in 1..12
       /\ text[2] >= 1
       /\ text[2] <= DaysInMonth(text[1], text[3])
       /\ ValidTime(<<text[4], text[5], text[6]>>)
    THEN <<[year |-> text[1], month |-> text[3], day |-> text[2],
            hour |-> text[4], minute |-> text[5], second |-> text[6]]>>
    ELSE <<>>

\* pd.to_datetime(text, format='%Y-%m-%d %H:%M:%S') of one value:
\* <<datetime>>, or << >> when the text does not denote a time.
to_datetime(text) ==
    IF /\ text[2] \in 1..12
       /\ text[3] >= 1
       /\ text[3] <= DaysInMonth(text[1], text[2])
       /\ ValidTime(<<text[4], text[5], text[6]>>)
    THEN <<[year |-> text[1], month |-> text[2], day |-> text[3],
            hour |-> text[4], minute |-> text[5], second |-> text[6]]>>
    ELSE <<>>

\* .dt.hour
dt_hour(dt) == dt.hour

DateLT(a, b) ==
    \/ a.year < b.year
    \/ a.year = b.year /\ a.month < b.month
    \/ a.year = b.year /\ a.month = b.month /\ a.day < b.day

----------------------------------------------------------------------------
(* The log lines a file is made of *)

Lmgrd == W("(lmgrd)")
Vendor == W("(LMCOMSOL)")

\* 16:26:55 (lmgrd) Time: Mon Mar 10 2025 16:26:55 GMT Standard Time
MarkerMar10 == <<TS(16, 26, 55), Lmgrd, KW, DATE("Mon", "Mar", 10, 2025),
                 TS(16, 26, 55), W("GMT")>>
MarkerMar11 == <<TS(0, 0, 5), Lmgrd, KW, DATE("Tue", "Mar", 11, 2025), TS(0, 0, 5)>>
\* A marker whose date does not exist: strptime raises ValueError.
MarkerFeb30 == <<TS(16, 26, 55), Lmgrd, KW, DATE("Sun", "Feb", 30, 2025),
                 TS(16, 26, 55)>>

\* 23:59:58 (LMCOMSOL) OUT: "COMSOL" alice@host
EvLateAlice == <<TS(23, 59, 58), Vendor, DIR("OUT"), Q("COMSOL"), W("alice@host")>>
EvEarlyBob  == <<TS(0, 0, 3), Vendor, DIR("OUT"), Q("CADIMPORT"), W("bob@host")>>
EvLateBob   == <<TS(23, 10, 0), Vendor, DIR("IN"), Q("COMSOL"), W("bob@host")>>
\* An event whose timestamp is no time of day: \d{2} admits 25.
EvHour25    == <<TS(25, 0, 0), Vendor, DIR("OUT"), Q("COMSOL"), W("alice@host")>>

\* A line both patterns match: an event line with a marker further along.
EvWithMarker == <<TS(9, 15, 0), Vendor, DIR("OUT"), Q("COMSOL"), W("carol@host"),
                  KW, DATE("Tue", "Mar", 11, 2025), TS(9, 15, 0)>>

\* A line neither pattern matches: an event without its leading timestamp.
NoTimestamp == <<Vendor, DIR("OUT"), Q("COMSOL"), W("alice@host")>>

Lines == {MarkerMar10, MarkerMar11, MarkerFeb30,
          EvLateAlice, EvEarlyBob, EvLateBob, EvHour25,
          EvWithMarker, NoTimestamp}

Files == UNION {[1..k -> Lines] : k \in 0..MaxLen}

----------------------------------------------------------------------------
(* State *)

VARIABLES
    log_file,       \* the lines of the file main is given
    pos,            \* how many of them the for loop has read
    events,         \* main's events list
    current_date,   \* << >> for None, else <<date>>
    pc,             \* where main is
    exc,            \* the exception that ended main, "none" if none
    df,             \* the DataFrame, a sequence of rows
    daily_users,    \* rows [date, unique_user_count]
    user_stats,     \* rows [metric, value], value a fraction <<num, den>>
    feature_usage,  \* rows [feature, count]
    user_usage,     \* rows [user, count]
    usage_by_hour,  \* rows [hour, count]
    written,        \* the files written, in order: [name, content]
    stdout          \* the messages printed, in order

scan_vars == <<log_file, pos, events, current_date>>
table_vars == <<df, daily_users, user_stats, feature_usage, user_usage, usage_by_hour>>
out_vars == <<written, stdout>>
vars == <<log_file, pos, events, current_date, pc, exc, df, daily_users, user_stats,
          feature_usage, user_usage, usage_by_hour, written, stdout>>

Init ==
    /\ log_file \in Files
    /\ pos = 0
    /\ events = <<>>
    /\ current_date = <<>>
    /\ pc = "scan"
    /\ exc = "none"
    /\ df = <<>>
    /\ daily_users = <<>>
    /\ user_stats = <<>>
    /\ feature_usage = <<>>
    /\ user_usage = <<>>
    /\ usage_by_hour = <<>>
    /\ written = <<>>
    /\ stdout = <<>>

----------------------------------------------------------------------------
(* The scan: for line in f *)

\* The for loop has a line to hand to its body.
HasLine == pc = "scan" /\ pos < Len(log_file)
Line == log_file[pos + 1]

Raise(e) == pc' = "raised" /\ exc' = e

\* The record appended for an event line under date context d.
Dated(parsed, d) ==
    [timestamp |-> parsed.timestamp,
     direction |-> parsed.direction,
     feature   |-> parsed.feature,
     user      |-> parsed.user,
     date      |-> d]

\* Faulty variant of DateMarkerLine: only the first marker sets the date.
DateMarkerLine_FirstWins ==
    /\ HasLine
    /\ DATE_LINE_RE(Line) # <<>>
    /\ pos' = pos + 1
    /\ LET date_match == DATE_LINE_RE(Line)[1]
           dt == strptime(date_match.date_str, date_match.time_str)
       IN  IF dt = <<>>
           THEN Raise("ValueError") /\ UNCHANGED current_date
           ELSE /\ current_date' = IF current_date = <<>> THEN <<dt_date(dt[1])>>
                                   ELSE current_date
                /\ UNCHANGED <<pc, exc>>
    /\ UNCHANGED <<log_file, events, table_vars, out_vars>>

\* Faulty variant of DateMarkerLine: the continue is missing, so a marker line
\* the event pattern matches as well is also recorded as an event.
DateMarkerLine_NoContinue ==
    /\ HasLine
    /\ DATE_LINE_RE(Line) # <<>>
    /\ pos' = pos + 1
    /\ LET date_match == DATE_LINE_RE(Line)[1]
           dt == strptime(date_match.date_str, date_match.time_str)
           parsed == parse_log_line(Line)
       IN  IF dt = <<>>
           THEN Raise("ValueError") /\ UNCHANGED <<current_date, events>>
           ELSE /\ current_date' = <<dt_date(dt[1])>>
                /\ events' = IF parsed = <<>> THEN events
                             ELSE Append(events, Dated(parsed[1], dt_date(dt[1])))
                /\ UNCHANGED <<pc, exc>>
    /\ UNCHANGED <<log_file, table_vars, out_vars>>

\* 1) a date marker: update the context date and continue.
DateMarkerLine ==
    /\ HasLine
    /\ DATE_LINE_RE(Line) # <<>>
    /\ pos' = pos + 1
    /\ LET date_match == DATE_LINE_RE(Line)[1]
           dt == strptime(date_match.date_str, date_match.time_str)
       IN  IF dt = <<>>
           THEN Raise("ValueError") /\ UNCHANGED current_date
           ELSE current_date' = <<dt_date(dt[1])>> /\ UNCHANGED <<pc, exc>>
    /\ UNCHANGED <<log_file, events, table_vars, out_vars>>

\* Faulty variant of EventLine: an event without date context is skipped.
EventLine_SkipUndated ==
    /\ HasLine
    /\ DATE_LINE_RE(Line) = <<>>
    /\ parse_log_line(Line) # <<>>
    /\ pos' = pos + 1
    /\ LET parsed == parse_log_line(Line)[1]
       IN  IF current_date = <<>>
           THEN UNCHANGED events
           ELSE events' = Append(events, Dated(parsed, current_date[1]))
    /\ UNCHANGED <<log_file, current_date, pc, exc, table_vars, out_vars>>

\* Faulty variant of EventLine: a timestamp earlier than the previous event's
\* is taken for a midnight rollover and moves the date context on a day.
EventLine_Rollover ==
    /\ HasLine
    /\ DATE_LINE_RE(Line) = <<>>
    /\ parse_log_line(Line) # <<>>
    /\ pos' = pos + 1
    /\ LET parsed == parse_log_line(Line)[1]
           last == events[Len(events)].timestamp
           rolled == /\ events # <<>>
                     /\ \/ parsed.timestamp[1] < last[1]
                        \/ parsed.timestamp[1] = last[1] /\ parsed.timestamp[2] < last[2]
           d == IF rolled
                THEN [current_date[1] EXCEPT !.day = @ + 1]
                ELSE current_date[1]
       IN  IF current_date = <<>>
           THEN Raise("RuntimeError") /\ UNCHANGED <<events, current_date>>
           ELSE /\ events' = Append(events, Dated(parsed, d))
                /\ current_date' = <<d>>
                /\ UNCHANGED <<pc, exc>>
    /\ UNCHANGED <<log_file, table_vars, out_vars>>

\* Faulty variant of EventLine: the event is put at the front of the list.
EventLine_Prepend ==
    /\ HasLine
    /\ DATE_LINE_RE(Line) = <<>>
    /\ parse_log_line(Line) # <<>>
    /\ pos' = pos + 1
    /\ LET parsed == parse_log_line(Line)[1]
       IN  IF current_date = <<>>
           THEN Raise("RuntimeError") /\ UNCHANGED events
           ELSE /\ events' = <<Dated(parsed, current_date[1])>> \o events
                /\ UNCHANGED <<pc, exc>>
    /\ UNCHANGED <<log_file, current_date, table_vars, out_vars>>

\* 2) an event line: attach the most recent date context and record it.
EventLine ==
    /\ HasLine
    /\ DATE_LINE_RE(Line) = <<>>
    /\ parse_log_line(Line) # <<>>
    /\ pos' = pos + 1
    /\ LET parsed == parse_log_line(Line)[1]
       IN  IF current_date = <<>>
           THEN Raise("RuntimeError") /\ UNCHANGED events
           ELSE /\ events' = Append(events, Dated(parsed, current_date[1]))
                /\ UNCHANGED <<pc, exc>>
    /\ UNCHANGED <<log_file, current_date, table_vars, out_vars>>

\* Neither pattern matches: the body falls through.
OtherLine ==
    /\ HasLine
    /\ DATE_LINE_RE(Line) = <<>>
    /\ parse_log_line(Line) = <<>>
    /\ pos' = pos + 1
    /\ UNCHANGED <<log_file, events, current_date, pc, exc, table_vars, out_vars>>

NoEventsMessage == "No events found in the log file. Please check the file format."

\* Faulty variant of CheckEvents: the return after the message is missing.
CheckEvents_NoReturn ==
    /\ pc = "scan"
    /\ pos = Len(log_file)
    /\ IF events = <<>>
       THEN stdout' = Append(stdout, NoEventsMessage)
       ELSE UNCHANGED stdout
    /\ pc' = "build"
    /\ UNCHANGED <<scan_vars, exc, table_vars, written>>

\* The file is exhausted: if not events, print and return.
CheckEvents ==
    /\ pc = "scan"
    /\ pos = Len(log_file)
    /\ IF events = <<>>
       THEN /\ stdout' = Append(stdout, NoEventsMessage)
            /\ pc' = "done"
       ELSE /\ pc' = "build"
            /\ UNCHANGED stdout
    /\ UNCHANGED <<scan_vars, exc, table_vars, written>>

----------------------------------------------------------------------------
(* The DataFrame and the grouped tables *)

Range(q) == {q[i] : i \in DOMAIN q}

\* The datetime column: pd.to_datetime over date.astype(str) + ' ' + timestamp.
datetime_column(evs) ==
    [i \in DOMAIN evs |-> to_datetime(date_str_timestamp(evs[i].date, evs[i].timestamp))]

\* pd.DataFrame(events) with the datetime and hour columns added and the
\* date column taken back from the datetime.
BuildDataFrame ==
    /\ pc = "build"
    /\ LET col == datetime_column(events)
       IN  IF \E i \in DOMAIN col : col[i] = <<>>
           THEN Raise("ValueError") /\ UNCHANGED df
           ELSE /\ df' = [i \in DOMAIN events |->
                            [timestamp |-> events[i].timestamp,
                             direction |-> events[i].direction,
                             feature   |-> events[i].feature,
                             user      |-> events[i].user,
                             datetime  |-> col[i][1],
                             hour      |-> dt_hour(col[i][1]),
                             date      |-> dt_date(col[i][1])]]
                /\ pc' = "daily"
                /\ UNCHANGED exc
    /\ UNCHANGED <<scan_vars, daily_users, user_stats, feature_usage, user_usage,
                   usage_by_hour, out_vars>>

\* The dates of a set in ascending order (groupby sorts its keys).
RECURSIVE SortDates(_)
SortDates(S) ==
    IF S = {} THEN <<>>
    ELSE LET d == CHOOSE x \in S : \A y \in S : ~DateLT(y, x)
         IN  <<d>> \o SortDates(S \ {d})

\* Faulty variant of nunique: the size of the group (count, not nunique).
nunique_Size(rows, date) ==
    Cardinality({k \in DOMAIN rows : rows[k].date = date})

\* Series.nunique of the users of one group.
nunique(rows, date) ==
    Cardinality({rows[i].user : i \in {k \in DOMAIN rows : rows[k].date = date}})

\* df.groupby('date')['user'].nunique().reset_index(name='unique_user_count')
groupby_date_nunique(rows) ==
    LET keys == SortDates({rows[i].date : i \in DOMAIN rows})
    IN  [k \in DOMAIN keys |->
            [date |-> keys[k], unique_user_count |-> nunique(rows, keys[k])]]

RECURSIVE SumSeq(_)
SumSeq(q) == IF q = <<>> THEN 0 ELSE Head(q) + SumSeq(Tail(q))

\* Series.mean, as the fraction <<sum, count>>.
mean(q) == <<SumSeq(q), Len(q)>>

\* Daily unique-user stats.
DailyStats ==
    /\ pc = "daily"
    /\ LET du == groupby_date_nunique(df)
           counts == [k \in DOMAIN du |-> du[k].unique_user_count]
           avg_users == mean(counts)
           max_users == Max(Range(counts))
       IN  /\ daily_users' = du
           /\ user_stats' = <<[metric |-> "average_users_per_day", value |-> avg_users],
                              [metric |-> "max_users_per_day", value |-> <<max_users, 1>>]>>
    /\ pc' = "aggregate"
    /\ UNCHANGED <<scan_vars, exc, df, feature_usage, user_usage, usage_by_hour, out_vars>>

\* Faulty variant of Occurrences: the first row of the column is left out.
Occurrences_SkipFirst(col, v) == Cardinality({i \in DOMAIN col \ {1} : col[i] = v})

\* How often a value occurs in a column.
Occurrences(col, v) == Cardinality({i \in DOMAIN col : col[i] = v})

\* Series.value_counts: one row per distinct value, most frequent first.  The
\* order among rows of equal count is not fixed, so every such order is a result.
value_counts(col) ==
    LET keys == Range(col)
        n == Cardinality(keys)
    IN  {[k \in 1..n |-> [key |-> p[k], count |-> Occurrences(col, p[k])]] :
            p \in {q \in [1..n -> keys] :
                     /\ \A a, b \in 1..n : a # b => q[a] # q[b]
                     /\ \A a, b \in 1..n :
                          a < b => Occurrences(col, q[a]) >= Occurrences(col, q[b])}}

\* The rows of a table in ascending order of key (sort_index).
RECURSIVE SortByKey(_)
SortByKey(S) ==
    IF S = {} THEN <<>>
    ELSE LET r == CHOOSE x \in S : \A y \in S : x.key <= y.key
         IN  <<r>> \o SortByKey(S \ {r})

sort_index(rows) == SortByKey(Range(rows))

Column(rows, name) == [i \in DOMAIN rows |-> rows[i][name]]

\* Aggregate usage tables.
AggregateUsage ==
    /\ pc = "aggregate"
    /\ \E fu \in value_counts(Column(df, "feature")),
          uu \in value_counts(Column(df, "user")),
          hu \in value_counts(Column(df, "hour")) :
            /\ feature_usage' = [k \in DOMAIN fu |->
                                    [feature |-> fu[k].key, count |-> fu[k].count]]
            /\ user_usage' = [k \in DOMAIN uu |->
                                    [user |-> uu[k].key, count |-> uu[k].count]]
            /\ usage_by_hour' = LET sorted == sort_index(hu)
                                IN  [k \in DOMAIN sorted |->
                                        [hour |-> sorted[k].key, count |-> sorted[k].count]]
    /\ pc' = "excel"
    /\ UNCHANGED <<scan_vars, exc, df, daily_users, user_stats, out_vars>>

----------------------------------------------------------------------------
(* Output *)

excel_file == "comsol_license_analysis.xlsx"

Sheet(name, table) == [sheet_name |-> name, table |-> table]

\* Write to Excel: six sheets, saved when the writer is closed.
WriteExcel ==
    /\ pc = "excel"
    /\ written' = Append(written,
          [name |-> excel_file,
           content |-> <<Sheet("LogEvents", df),
                         Sheet("FeatureUsage", feature_usage),
                         Sheet("UserUsage", user_usage),
                         Sheet("UsageByHour", usage_by_hour),
                         Sheet("DailyUserCounts", daily_users),
                         Sheet("UserStats", user_stats)>>])
    /\ stdout' = Append(stdout, "Excel file has been created")
    /\ pc' = "plot_feature"
    /\ UNCHANGED <<scan_vars, exc, table_vars>>

savefig(name, data) == written' = Append(written, [name |-> name, content |-> data])

\* Feature usage bar.
PlotFeatureUsage ==
    /\ pc = "plot_feature"
    /\ savefig("feature_usage.png", feature_usage)
    /\ pc' = "plot_hour"
    /\ UNCHANGED <<scan_vars, exc, table_vars, stdout>>

\* Faulty variant of PlotUsageByHour: saved under the next chart's name.
PlotUsageByHour_WrongFile ==
    /\ pc = "plot_hour"
    /\ savefig("user_usage.png", usage_by_hour)
    /\ pc' = "plot_user"
    /\ UNCHANGED <<scan_vars, exc, table_vars, stdout>>

\* Usage across hours.
PlotUsageByHour ==
    /\ pc = "plot_hour"
    /\ savefig("usage_by_hour.png", usage_by_hour)
    /\ pc' = "plot_user"
    /\ UNCHANGED <<scan_vars, exc, table_vars, stdout>>

\* The number of users the last chart shows.
TopUsers == 10

head(rows, k) == SubSeq(rows, 1, IF Len(rows) < k THEN Len(rows) ELSE k)

\* Top 10 users.
PlotUserUsage ==
    /\ pc = "plot_user"
    /\ savefig("user_usage.png", head(user_usage, TopUsers))
    /\ pc' = "done"
    /\ UNCHANGED <<scan_vars, exc, table_vars, stdout>>

----------------------------------------------------------------------------

Next ==
    \/ DateMarkerLine
    \/ EventLine
    \/ OtherLine
    \/ CheckEvents
    \/ BuildDataFrame
    \/ DailyStats
    \/ AggregateUsage
    \/ WriteExcel
    \/ PlotFeatureUsage
    \/ PlotUsageByHour
    \/ PlotUserUsage

Spec == Init /\ [][Next]_vars

----------------------------------------------------------------------------
(* What the log says, read off the file itself *)

IsMarkerLine(i) == DATE_LINE_RE(log_file[i]) # <<>>
IsEventLine(i) == ~IsMarkerLine(i) /\ parse_log_line(log_file[i]) # <<>>
IsIgnoredLine(i) == ~IsMarkerLine(i) /\ parse_log_line(log_file[i]) = <<>>

\* The calendar date written on marker line i.
MarkerDate(i) ==
    LET tok == log_file[i][Min(MarkerAt(log_file[i])) + 1]
    IN  [year  |-> tok.n[2],
         month |-> CHOOSE k \in 1..12 : MonthNames[k] = tok.s[2],
         day   |-> tok.n[1]]

MarkersBefore(i) == {j \in 1..(i - 1) : IsMarkerLine(j)}
LastMarkerBefore(i) == Max(MarkersBefore(i))

\* The lines main has gone through, less the event line it raised at.
Processed == IF exc = "RuntimeError" THEN pos - 1 ELSE pos

\* The event lines among the first n lines, in file order.
EventLines(n) == SelectSeq([i \in 1..n |-> i], LAMBDA i : IsEventLine(i))

\* The HH:MM:SS an event line starts with.
OwnTimestamp(i) == log_file[i][1].n

TsLT(a, b) ==
    \/ a[1] < b[1]
    \/ a[1] = b[1] /\ a[2] < b[2]
    \/ a[1] = b[1] /\ a[2] = b[2] /\ a[3] < b[3]

\* The loop body has just run on line pos'.
Stepped == pc = "scan" /\ pos' = pos + 1

----------------------------------------------------------------------------
(* C1 *)

\* C1: every recorded event, in the events list and in the DataFrame, carries
\* the date of the last date-marker line before its own line in the file.
C1_DateCarryForward ==
    LET idx == EventLines(Processed)
    IN  /\ \A k \in DOMAIN events :
              /\ k <= Len(idx)
              /\ MarkersBefore(idx[k]) # {}
              /\ events[k].date = MarkerDate(LastMarkerBefore(idx[k]))
        /\ \A k \in DOMAIN df :
              /\ k <= Len(idx)
              /\ df[k].date = MarkerDate(LastMarkerBefore(idx[k]))

\* An event with two different markers before it and a third, different from
\* the one it got, after it; the whole file has been read and tabulated.
C1_Witness ==
    /\ pc = "done"
    /\ \E k \in DOMAIN df :
          LET i == EventLines(pos)[k]
          IN  /\ \E a, b \in MarkersBefore(i) : MarkerDate(a) # MarkerDate(b)
              /\ \E c \in (i + 1)..pos :
                    IsMarkerLine(c) /\ MarkerDate(c) # df[k].date

----------------------------------------------------------------------------
(* C2 *)

\* C2: a step of the loop treats its line as exactly one of marker, event and
\* ignored.  A line the marker pattern matches never adds an event, also when
\* the event pattern matches it too; a line neither matches adds no event and
\* changes nothing else; any other line adds exactly one event or raises.
C2_Classification ==
    [][Stepped =>
         /\ Cardinality({c \in {"marker", "event", "ignored"} :
                \/ c = "marker" /\ IsMarkerLine(pos')
                \/ c = "event" /\ IsEventLine(pos')
                \/ c = "ignored" /\ IsIgnoredLine(pos')}) = 1
         /\ IsMarkerLine(pos') =>
               /\ events' = events
               /\ \/ current_date' = <<MarkerDate(pos')>> /\ pc' = "scan"
                  \/ exc' = "ValueError"
         /\ IsIgnoredLine(pos') =>
               /\ events' = events
               /\ UNCHANGED <<current_date, pc, exc>>
         /\ IsEventLine(pos') =>
               \/ Len(events') = Len(events) + 1 /\ pc' = "scan"
               \/ events' = events /\ exc' = "RuntimeError"]_vars

\* The loop has just gone past a line both patterns match, with an event
\* already recorded and a date context other than that line's before it.
C2_Witness ==
    /\ pc = "scan"
    /\ pos >= 3
    /\ IsMarkerLine(pos)
    /\ parse_log_line(log_file[pos]) # <<>>
    /\ Len(events) = 1
    /\ events[1].date # MarkerDate(pos)
    /\ current_date = <<MarkerDate(pos)>>

----------------------------------------------------------------------------
(* C3 *)

\* C3: the datetime of every row of the DataFrame is the date of the last
\* marker before the event's line together with the HH:MM:SS the event's own
\* line starts with, and its hour is that timestamp's hour; the time written
\* on the marker line is no part of it.
C3_DatetimeReconstruction ==
    LET idx == EventLines(pos)
    IN  /\ df # <<>> => Len(df) = Len(idx)
        /\ \A k \in DOMAIN df :
              LET d == MarkerDate(LastMarkerBefore(idx[k]))
                  t == OwnTimestamp(idx[k])
              IN  /\ df[k].datetime = [year |-> d.year, month |-> d.month,
                                       day |-> d.day, hour |-> t[1],
                                       minute |-> t[2], second |-> t[3]]
                  /\ df[k].hour = t[1]

\* A row whose own timestamp differs in hour, minute and second from the time
\* written on the marker that dates it.
C3_Witness ==
    /\ pc = "done"
    /\ \E k \in DOMAIN df :
          LET m == LastMarkerBefore(EventLines(pos)[k])
              mt == DATE_LINE_RE(log_file[m])[1].time_str
          IN  /\ df[k].datetime.hour # mt[1]
              /\ df[k].datetime.minute # mt[2]
              /\ df[k].datetime.second # mt[3]

----------------------------------------------------------------------------
(* C4 *)

\* The event lines that no marker line precedes.
UndatedEventLines ==
    {i \in 1..Len(log_file) : IsEventLine(i) /\ MarkersBefore(i) = {}}

\* C4: when the file has an event line with no marker line before it, main
\* reads no further than the first such line, raises RuntimeError there, and
\* records, prints and writes nothing, whatever follows that line.
C4_MissingDateContext ==
    UndatedEventLines # {} =>
        LET i == Min(UndatedEventLines)
        IN  /\ pos <= i
            /\ pos < i => pc = "scan" /\ exc = "none"
            /\ pos = i => pc = "raised" /\ exc = "RuntimeError"
            /\ events = <<>>
            /\ df = <<>>
            /\ written = <<>>
            /\ stdout = <<>>

\* main has raised at an undated event after an ignored line, with a valid
\* marker and then a further event still unread behind it.
C4_Witness ==
    /\ pc = "raised"
    /\ exc = "RuntimeError"
    /\ pos = 2
    /\ \E a, b \in (pos + 1)..Len(log_file) :
          /\ a < b
          /\ IsMarkerLine(a)
          /\ strptime(DATE_LINE_RE(log_file[a])[1].date_str,
                      DATE_LINE_RE(log_file[a])[1].time_str) # <<>>
          /\ IsEventLine(b)

----------------------------------------------------------------------------
(* C5 *)

\* The tables have been computed.
Aggregated == pc \in {"excel", "plot_feature", "plot_hour", "plot_user", "done"}

\* The recorded events whose field f (feature or user) is v.
EventsWith(f, v) == {i \in DOMAIN events : events[i][f] = v}
\* The recorded events whose timestamp has hour h.
EventsAtHour(h) == {i \in DOMAIN events : events[i].timestamp[1] = h}

\* The counts of a table add up to n, counted row by row.
RECURSIVE CountsFrom(_, _)
CountsFrom(rows, k) ==
    IF k > Len(rows) THEN 0 ELSE rows[k].count + CountsFrom(rows, k + 1)

\* C5: once the tables are computed, each of the feature, user and hour tables
\* has one row for every key some recorded event has and no other row, no key
\* twice, each count the number of recorded events with that key, and counts
\* that add up to the number of recorded events.
C5_GroupedCounts ==
    Aggregated =>
        /\ \A k \in DOMAIN feature_usage :
              /\ feature_usage[k].count = Cardinality(EventsWith("feature", feature_usage[k].feature))
              /\ feature_usage[k].count >= 1
              /\ \A j \in DOMAIN feature_usage :
                    j # k => feature_usage[j].feature # feature_usage[k].feature
        /\ \A i \in DOMAIN events :
              \E k \in DOMAIN feature_usage : feature_usage[k].feature = events[i].feature
        /\ CountsFrom(feature_usage, 1) = Len(events)
        /\ \A k \in DOMAIN user_usage :
              /\ user_usage[k].count = Cardinality(EventsWith("user", user_usage[k].user))
              /\ user_usage[k].count >= 1
              /\ \A j \in DOMAIN user_usage :
                    j # k => user_usage[j].user # user_usage[k].user
        /\ \A i \in DOMAIN events :
              \E k \in DOMAIN user_usage : user_usage[k].user = events[i].user
        /\ CountsFrom(user_usage, 1) = Len(events)
        /\ \A k \in DOMAIN usage_by_hour :
              /\ usage_by_hour[k].count = Cardinality(EventsAtHour(usage_by_hour[k].hour))
              /\ usage_by_hour[k].count >= 1
              /\ \A j \in DOMAIN usage_by_hour :
                    j # k => usage_by_hour[j].hour # usage_by_hour[k].hour
        /\ \A i \in DOMAIN events :
              \E k \in DOMAIN usage_by_hour : usage_by_hour[k].hour = events[i].timestamp[1]
        /\ CountsFrom(usage_by_hour, 1) = Len(events)

\* Three events tabulated, each table with two keys of counts 2 and 1.
C5_Witness ==
    /\ Aggregated
    /\ Len(events) = 3
    /\ Len(feature_usage) = 2 /\ feature_usage[1].count = 2
    /\ Len(user_usage) = 2 /\ user_usage[1].count = 2
    /\ Len(usage_by_hour) = 2 /\ usage_by_hour[2].count = 2

----------------------------------------------------------------------------
(* C6 *)

\* C6: when the scan ends with no event recorded, main prints the 'No events
\* found' message and nothing else, returns without an exception, builds no
\* table and writes no file.
C6_EmptyResult ==
    (events = <<>> /\ pc \notin {"scan", "raised"}) =>
        /\ pc = "done"
        /\ exc = "none"
        /\ pos = Len(log_file)
        /\ stdout = <<NoEventsMessage>>
        /\ written = <<>>
        /\ df = <<>>

\* main has returned from a file of marker and ignored lines only.
C6_Witness ==
    /\ pc = "done"
    /\ events = <<>>
    /\ \E i \in 1..Len(log_file) : IsMarkerLine(i)
    /\ \E i \in 1..Len(log_file) : IsIgnoredLine(i)

----------------------------------------------------------------------------
(* C7 *)

OutputNames == <<excel_file, "feature_usage.png", "usage_by_hour.png", "user_usage.png">>
SheetNames == <<"LogEvents", "FeatureUsage", "UserUsage", "UsageByHour",
                "DailyUserCounts", "UserStats">>

\* C7: the files written are at every moment the first few of workbook,
\* feature_usage.png, usage_by_hour.png, user_usage.png, in that order; nothing
\* is written before the whole log is read and an event is recorded; the
\* workbook holds the six sheets; and a run that ends without an exception
\* with an event recorded has written all four.
C7_OutputOrdering ==
    /\ Len(written) <= Len(OutputNames)
    /\ \A k \in DOMAIN written : written[k].name = OutputNames[k]
    /\ written # <<>> =>
          /\ pos = Len(log_file)
          /\ events # <<>>
          /\ Len(written[1].content) = Len(SheetNames)
          /\ \A j \in DOMAIN SheetNames : written[1].content[j].sheet_name = SheetNames[j]
          /\ written[1].content[1].table = df
    /\ (pc = "done" /\ events # <<>>) => Len(written) = Len(OutputNames)

\* main has finished with the workbook and the three charts written.
C7_Witness ==
    /\ pc = "done"
    /\ exc = "none"
    /\ Len(written) = 4
    /\ Len(log_file) = MaxLen

----------------------------------------------------------------------------
(* C8 *)

\* C8: a step of the loop on a line that is no marker leaves current_date as
\* it was, and a step on a marker line leaves the event list as it was; an
\* event recorded right after another with an earlier timestamp than that
\* one's still gets the date of the last marker, the same date as the one
\* before it.
C8_OnlyMarkersMoveDate ==
    [][Stepped =>
         /\ ~IsMarkerLine(pos') => current_date' = current_date
         /\ IsMarkerLine(pos') => events' = events
         /\ (/\ IsEventLine(pos')
             /\ events # <<>>
             /\ pos >= 1
             /\ IsEventLine(pos)
             /\ TsLT(OwnTimestamp(pos'), OwnTimestamp(pos))
             /\ pc' = "scan") =>
               /\ Len(events') = Len(events) + 1
               /\ events'[Len(events')].date = MarkerDate(LastMarkerBefore(pos'))
               /\ events'[Len(events')].date = events[Len(events)].date]_vars

\* Two events recorded from adjacent lines, the second with the earlier
\* timestamp, and an ignored line read after them.
C8_Witness ==
    /\ pc = "scan"
    /\ pos >= 4
    /\ IsIgnoredLine(pos)
    /\ IsEventLine(pos - 1)
    /\ IsEventLine(pos - 2)
    /\ TsLT(OwnTimestamp(pos - 1), OwnTimestamp(pos - 2))
    /\ Len(events) = 2
    /\ events[2].date = events[1].date
    /\ current_date = <<events[1].date>>

----------------------------------------------------------------------------
(* C9 *)

\* The daily table has been computed.
DailyDone ==
    /\ pc \in {"aggregate", "excel", "plot_feature", "plot_hour", "plot_user", "done"}
    /\ events # <<>>

\* The recorded events dated d, and the users among them.
EventsOn(d) == {i \in DOMAIN events : events[i].date = d}
UsersOn(d) == {events[i].user : i \in EventsOn(d)}

----------------------------------------------------------------------------
(* C10 *)

\* The event list is what the event lines read so far say, in file order.
EventsMatchPrefix ==
    LET idx == EventLines(Processed)
    IN  /\ Len(events) = Len(idx)
        /\ \A k \in DOMAIN events :
              LET line == log_file[idx[k]]
                  j == Min(EventAt(line))
              IN  /\ events[k].timestamp = line[1].n
                  /\ events[k].direction = line[j].s[1]
                  /\ events[k].feature = line[j + 1].s[1]
                  /\ events[k].user = Text(line[j + 2])

\* No step changes or removes an entry the list already has.
EventsKept ==
    /\ Len(events') >= Len(events)
    /\ \A k \in DOMAIN events : events'[k] = events[k]

\* C10: at every point of a run the event list has exactly one entry for each
\* event line read so far, in file order, and no step, a later marker
\* included, changes or removes an entry already there.
C10_AppendOnlyRecord == []EventsMatchPrefix /\ [][EventsKept]_vars

\* Two different events recorded in file order and a marker of another date
\* read after them.
C10_Witness ==
    /\ pc = "scan"
    /\ pos = 4
    /\ IsMarkerLine(pos)
    /\ Len(events) = 2
    /\ events[1] # events[2]
    /\ current_date # <<events[2].date>>
    /\ current_date # <<>>

====
